---- MODULE Spec2Model ----
(***************************************************************************)
(* Order engine of the point-of-sale backend (services/order.service.js,   *)
(* controllers/order.controller.js) together with the two admin operations *)
(* that change what it reads: updatePaymentMethodSetting and updateProduct.*)
(*                                                                         *)
(* Every request handler is an async function; the database is touched only*)
(* at its awaits.  A handler is therefore modelled as one action per       *)
(* database round trip: the code between two awaits is synchronous and     *)
(* belongs to the action of the await that precedes it.  Handlers of       *)
(* different requests interleave at these points.  prisma.$transaction is  *)
(* one action (its writes become visible together at commit, or not at     *)
(* all).                                                                   *)
(***************************************************************************)
EXTENDS Integers, Sequences, FiniteSets, Bags, TLC

\* ---------------------------------------------------------------- bounds
NumReq == 2          \* requests that can be in flight at the same time
MaxOrders == 1       \* orders that can be persisted
NumProducts == 2     \* products in the catalog
MaxItems == 2        \* line items in one createOrder request
MaxQty == 2          \* largest quantity of a line item
InitStock == 2       \* stock of every product at the start
InitPrice == 1       \* price of every product at the start
MaxApplied == 1      \* completeOrder is not started on an order completed this often
MaxAdminOps == 1     \* admin updates (payment setting, product) in one run
SeqMaxOrders == 2    \* orders that can be persisted when requests run one at a time
MaxDays == 2         \* days the clock covers
TopProducts == 6     \* products in the catalog when the top-selling list is computed

\* ---------------------------------------------------------------- domains
Products == 1..NumProducts
MissingProductId == NumProducts + 1
ProductIdInputs == Products \cup {MissingProductId}
Quantities == 1..MaxQty
OrderIdInputs == 1..MaxOrders

\* enum PaymentMethod of the schema
PaymentMethods == {"BANK_TRANSFER", "CASH", "QRIS", "E_WALLET"}
\* the PaymentMethodSetting rows the seed creates; no handler creates or deletes one
SettingMethods == {"BANK_TRANSFER", "CASH", "QRIS"}
\* enum OrderStatus of the schema
OrderStatus == {"PENDING", "PAYMENT_UPLOADED", "PAYMENT_VERIFIED", "COMPLETED", "CANCELLED"}

SeedSettings ==
  [m \in SettingMethods |->
     CASE m = "BANK_TRANSFER" -> [isEnabled |-> TRUE,  requiresProof |-> TRUE]
       [] m = "CASH"          -> [isEnabled |-> TRUE,  requiresProof |-> FALSE]
       [] m = "QRIS"          -> [isEnabled |-> FALSE, requiresProof |-> FALSE]]

ItemInputs == [productId : ProductIdInputs, quantity : Quantities]

RECURSIVE SeqsUpTo(_, _)
SeqsUpTo(S, n) ==
  IF n = 0 THEN {<<>>}
  ELSE LET shorter == SeqsUpTo(S, n - 1)
       IN shorter \cup {Append(s, x) : s \in {t \in shorter : Len(t) = n - 1}, x \in S}

ItemListInputs == SeqsUpTo(ItemInputs, MaxItems)
\* Time.  An instant counts units of UnitsPerDay to the UTC day; the local time of
\* the server is tz units ahead of UTC.  Instants start one day after instant 0 so
\* that every local time is positive.
UnitsPerDay == 2
DaysPerMonth == 2
TopN == 5
FirstInstant == UnitsPerDay
Instants == FirstInstant .. (UnitsPerDay * (MaxDays + 1) - 1)
TzShifts == {-1, 0, 1}
\* a date of the form YYYY-MM-DD, by the number of its day; 0: no date given
DateInputs == 0 .. MaxDays

FileInputs == {0, 1}     \* 0: the request carries no file
StockInputs == {0}
PriceInputs == {InitPrice + 1}

VARIABLES
  stock,      \* Product.stock, by product id
  price,      \* Product.price, by product id
  settings,   \* PaymentMethodSetting rows, by method
  orders,     \* Order rows with their items and proof; the id is the index
  applied,    \* history: how often a completeOrder transaction committed, by order id
  reqs,       \* the request handlers in flight: a bag of handler states
  resp,       \* history: the response an order handler sent in the last step, if any
  nAdmin      \* admin updates done so far

vars == <<stock, price, settings, orders, applied, reqs, resp, nAdmin>>

NoSnap == [status |-> "none", paymentProof |-> 0]

\* a handler: op and pc say where it is, the other fields are its local variables
\* (given: the paymentMethod of the request body; snap: the order it read at the
\* start; base: history, the value of applied when completeOrder read the order)
\* (for a report: date is the day asked for, or the instant of the call for the
\* summary; tz the local time of the server; body the part of the result built so far)
Idle ==
  [op |-> "none", pc |-> "idle", oid |-> 0, given |-> "none", paymentMethod |-> "none",
   items |-> <<>>, orderItems |-> <<>>, totalAmount |-> 0, snap |-> NoSnap, file |-> 0, base |-> 0,
   readProof |-> FALSE, date |-> 0, tz |-> 0, body |-> <<>>]

\* a response: the handler, its order, the error thrown ("none": success), the
\* status sent and, for createOrder, the method given and used, the number of items
\* that had passed validation and whether an item not yet validated was short of
\* stock; for uploadPaymentProof, the file of the request
NoResp ==
  [op |-> "none", oid |-> 0, err |-> "none", http |-> 0, given |-> "none",
   paymentMethod |-> "none", nOk |-> 0, short |-> FALSE, file |-> 0,
   date |-> 0, tz |-> 0, body |-> <<>>]

Init ==
  /\ stock = [p \in Products |-> InitStock]
  /\ price = [p \in Products |-> InitPrice]
  /\ settings = SeedSettings
  /\ orders = <<>>
  /\ applied = [o \in 1..SeqMaxOrders |-> 0]
  /\ reqs = EmptyBag
  /\ resp = NoResp
  /\ nAdmin = 0

\* ------------------------------------------------------------ controller
\* The status each controller sends for an error thrown by its service.
ControllerStatus(op, err) ==
  CASE err = "none" -> IF op = "create" THEN 201 ELSE 200
    [] err = "Validation" -> 400
    [] op = "create" /\ err \in {"ProductNotFound", "InsufficientStock"} -> 400
    [] op # "create" /\ err = "OrderNotFound" -> 404
    [] op = "upload" /\ err \in {"NotPending", "ProofNotRequired"} -> 400
    [] op = "verify" /\ err \in {"NotUploaded", "NoProof", "NotPendingOrVerified"} -> 400
    [] op = "complete" /\ err = "NotVerified" -> 400
    [] op = "cancel" /\ err = "NotCancellable" -> 400
    [] OTHER -> 500

\* The order statuses the message of an invalid-state error names.  The messages
\* are fixed texts ('Payment proof can only be uploaded for pending orders',
\* 'Only orders with uploaded payment can be verified', 'Only pending or already
\* verified orders can be processed', 'Only verified orders can be completed',
\* 'Only pending, payment uploaded, or payment verified orders can be cancelled'):
\* each names the statuses its handler accepts, and order.status is in none.
StatusesNamed(err) ==
  CASE err = "NotPending" -> {"PENDING"}
    [] err = "NotUploaded" -> {"PAYMENT_UPLOADED"}
    [] err = "NotPendingOrVerified" -> {"PENDING", "PAYMENT_VERIFIED"}
    [] err = "NotVerified" -> {"PAYMENT_VERIFIED"}
    [] err = "NotCancellable" -> {"PENDING", "PAYMENT_UPLOADED", "PAYMENT_VERIFIED"}
    [] OTHER -> {}

InFlight == BagToSet(reqs)

\* some item of the list asks for more than the current stock of its product
AnyShort(items) ==
  \E i \in 1..Len(items) :
     items[i].productId \in Products /\ stock[items[i].productId] < items[i].quantity

\* a request arrives while fewer than NumReq handlers are in flight
Accept == BagCardinality(reqs) < NumReq

\* the handler in state q returns or throws and its controller sends the response
\* (a handler that ends at its first await never was in the bag)
Finish(q, op, oid, err) ==
  /\ reqs' = reqs (-) SetToBag({q})
  /\ resp' = [NoResp EXCEPT !.op = op, !.oid = oid, !.err = err,
                            !.http = ControllerStatus(op, err),
                            !.given = q.given, !.paymentMethod = q.paymentMethod,
                            !.nOk = Len(q.orderItems), !.short = AnyShort(q.items),
                            !.file = q.file]

\* the handler in state q goes on to its next await in state q2
Continue(q, q2) ==
  /\ reqs' = (reqs (-) SetToBag({q})) (+) SetToBag({q2})
  /\ resp' = NoResp

\* ------------------------------------------------------------ createOrder
InFlightCreates == BagCardinality([q \in {c \in InFlight : c.op = "create"} |-> reqs[q]])

\* variant: the lookup without the isEnabled filter
FindSettingAnyState(m) == m \in SettingMethods

\* prisma.paymentMethodSetting.findFirst({where: {method, isEnabled: true}})
FindEnabledSetting(m) == m \in SettingMethods /\ settings[m].isEnabled

\* prisma.paymentMethodSetting.findFirst({where: {method}})
HasSetting(m) == m \in SettingMethods

\* variant: every order starts verified
InitialStatusVerified(paymentMethod) == "PAYMENT_VERIFIED"

InitialStatus(paymentMethod) ==
  IF paymentMethod = "CASH" THEN "PAYMENT_VERIFIED" ELSE "PENDING"

\* controller validation, the default of paymentMethod, the empty-items check
\* and the lookup of the enabled setting
CreateStart(hasName, items, m) ==
  LET paymentMethod == IF m = "undefined" THEN "BANK_TRANSFER" ELSE m
      q == [Idle EXCEPT !.op = "create", !.pc = "items", !.given = m,
                        !.paymentMethod = paymentMethod, !.items = items]
  IN
  /\ Accept
  /\ IF ~hasName \/ items = <<>>
       THEN Finish(q, "create", 0, "Validation")
     ELSE IF ~FindEnabledSetting(paymentMethod)
       THEN Finish(q, "create", 0, "NotAvailable")
     ELSE Continue(q, [q EXCEPT !.readProof = settings[paymentMethod].requiresProof])
  /\ UNCHANGED <<stock, price, settings, orders, applied, nAdmin>>

\* variant: the stock is compared for the first item only
StockShortFirstOnly(q) ==
  q.orderItems = <<>> /\ stock[Head(q.items).productId] < Head(q.items).quantity

\* product.stock < item.quantity for the item the loop is at
StockShort(q) == stock[Head(q.items).productId] < Head(q.items).quantity

\* variant: the subtotal is taken at the starting price, not the price read
SubtotalAtInitPrice(p, quantity) == InitPrice * quantity

\* const subtotal = product.price * item.quantity, on the product just read
Subtotal(p, quantity) == price[p] * quantity

\* variant: the total keeps the last subtotal only
LastSubtotalOnly(totalAmount, subtotal) == subtotal

\* totalAmount += subtotal
AddSubtotal(totalAmount, subtotal) == totalAmount + subtotal

\* one iteration of the validation loop: product.findUnique and the two checks
CreateItem(q) ==
  LET item == Head(q.items)
      subtotal == Subtotal(item.productId, item.quantity)
  IN
  /\ q.op = "create" /\ q.pc = "items"
  /\ IF item.productId \notin Products
       THEN Finish(q, "create", 0, "ProductNotFound")
     ELSE IF StockShort(q)
       THEN Finish(q, "create", 0, "InsufficientStock")
     ELSE Continue(q, [q EXCEPT !.items = Tail(q.items),
                                !.orderItems = Append(q.orderItems, [productId |-> item.productId,
                                                       quantity |-> item.quantity,
                                                       subtotal |-> subtotal]),
                                !.totalAmount = AddSubtotal(q.totalAmount, subtotal),
                                !.pc = IF Tail(q.items) = <<>> THEN "insert" ELSE "items"])
  /\ UNCHANGED <<stock, price, settings, orders, applied, nAdmin>>

\* createdAt @default(now()): the clock never runs backwards
LastCreatedAt == IF orders = <<>> THEN FirstInstant ELSE orders[Len(orders)].createdAt

\* prisma.$transaction: order.create with its nested orderItems, at instant now
CreateInsert(q, now) ==
  /\ q.op = "create" /\ q.pc = "insert"
  /\ now >= LastCreatedAt
  /\ orders' = Append(orders, [status |-> InitialStatus(q.paymentMethod), paymentMethod |-> q.paymentMethod,
                               orderItems |-> q.orderItems, totalAmount |-> q.totalAmount, paymentProof |-> 0,
                               createdAt |-> now])
  /\ Finish(q, "create", Len(orders) + 1, "none")
  /\ UNCHANGED <<stock, price, settings, applied, nAdmin>>

\* ------------------------------------------------------ order lookups
\* prisma.order.findUnique({where: {id}}); ids are assigned 1, 2, ... by autoincrement
OrderExists(oid) == oid \in 1..Len(orders)

Snapshot(oid) == [status |-> orders[oid].status, paymentProof |-> orders[oid].paymentProof]

Started(op, pc, oid) == [Idle EXCEPT !.op = op, !.pc = pc, !.oid = oid, !.snap = Snapshot(oid)]

SetStatus(oid, st) == [orders EXCEPT ![oid].status = st]

\* ------------------------------------------------------ uploadPaymentProof
\* controller file check, order.findUnique with its proof, the status check
UploadStart(oid, file) ==
  LET q == [Idle EXCEPT !.file = file]
  IN
  /\ Accept
  /\ IF file = 0 THEN Finish(q, "upload", oid, "Validation")
     ELSE IF ~OrderExists(oid) THEN Finish(q, "upload", oid, "OrderNotFound")
     ELSE IF orders[oid].status # "PENDING" THEN Finish(q, "upload", oid, "NotPending")
     ELSE Continue(q, [Started("upload", "setting", oid) EXCEPT !.file = file])
  /\ UNCHANGED <<stock, price, settings, orders, applied, nAdmin>>

\* paymentMethodSetting.findFirst for the order's method and the requiresProof check
UploadSetting(q) ==
  LET m == orders[q.oid].paymentMethod
  IN
  /\ q.op = "upload" /\ q.pc = "setting"
  /\ IF ~HasSetting(m) \/ ~settings[m].requiresProof
       THEN Finish(q, "upload", q.oid, "ProofNotRequired")
     ELSE Continue(q, [q EXCEPT !.pc = "write"])
  /\ UNCHANGED <<stock, price, settings, orders, applied, nAdmin>>

\* variant: the proof is written and the status is left as it is
WriteProofKeepStatus(oid, file) == [orders EXCEPT ![oid].paymentProof = file]

\* data: {status: 'PAYMENT_UPLOADED', paymentProof: {create | update: {fileUrl}}}
WriteProof(oid, file) ==
  [orders EXCEPT ![oid].status = "PAYMENT_UPLOADED", ![oid].paymentProof = file]

\* order.update with the nested proof write: update of the existing proof row when
\* the order read at the start had one, create otherwise (PaymentProof.orderId is
\* unique, so the create fails when a row exists by now and the update is undone)
UploadWrite(q) ==
  /\ q.op = "upload" /\ q.pc = "write"
  /\ IF q.snap.paymentProof = 0 /\ orders[q.oid].paymentProof # 0
       THEN /\ orders' = orders
            /\ Finish(q, "upload", q.oid, "Storage")
       ELSE /\ orders' = WriteProof(q.oid, q.file)
            /\ Finish(q, "upload", q.oid, "none")
  /\ UNCHANGED <<stock, price, settings, applied, nAdmin>>

\* ------------------------------------------------------------ verifyPayment
\* order.findUnique with items and proof
VerifyStart(oid) ==
  /\ Accept
  /\ IF ~OrderExists(oid) THEN Finish(Idle, "verify", oid, "OrderNotFound")
     ELSE Continue(Idle, Started("verify", "setting", oid))
  /\ UNCHANGED <<stock, price, settings, orders, applied, nAdmin>>

\* the checks of verifyPayment on the order read at the start, by the setting read now
VerifyError(m, snap) ==
  IF ~HasSetting(m) THEN "ConfigNotFound"
  ELSE IF settings[m].requiresProof
    THEN IF snap.status # "PAYMENT_UPLOADED" THEN "NotUploaded"
         ELSE IF snap.paymentProof = 0 THEN "NoProof"
         ELSE "none"
  ELSE IF snap.status # "PENDING" /\ snap.status # "PAYMENT_VERIFIED"
    THEN "NotPendingOrVerified"
  ELSE "none"

\* paymentMethodSetting.findFirst and the checks that depend on requiresProof
VerifySetting(q) ==
  LET err == VerifyError(orders[q.oid].paymentMethod, q.snap)
  IN
  /\ q.op = "verify" /\ q.pc = "setting"
  /\ IF err # "none" THEN Finish(q, "verify", q.oid, err)
     ELSE Continue(q, [q EXCEPT !.pc = "write"])
  /\ UNCHANGED <<stock, price, settings, orders, applied, nAdmin>>

\* order.update({data: {status: 'PAYMENT_VERIFIED'}})
VerifyWrite(q) ==
  /\ q.op = "verify" /\ q.pc = "write"
  /\ orders' = SetStatus(q.oid, "PAYMENT_VERIFIED")
  /\ Finish(q, "verify", q.oid, "none")
  /\ UNCHANGED <<stock, price, settings, applied, nAdmin>>

\* ------------------------------------------------------------ completeOrder
RECURSIVE DecrementByOne(_, _)
\* variant: every item takes one unit whatever its quantity
DecrementByOne(st, items) ==
  IF items = <<>> THEN st
  ELSE DecrementByOne([st EXCEPT ![Head(items).productId] = @ - 1], Tail(items))

RECURSIVE DecrementWhileSufficient(_, _)
\* variant: an item is taken from the stock only when the stock covers it
DecrementWhileSufficient(st, items) ==
  IF items = <<>> THEN st
  ELSE LET item == Head(items)
       IN DecrementWhileSufficient(
            IF st[item.productId] < item.quantity THEN st
            ELSE [st EXCEPT ![item.productId] = @ - item.quantity], Tail(items))

RECURSIVE DecrementAll(_, _)
\* the loop of product.update({data: {stock: {decrement: item.quantity}}})
DecrementAll(st, items) ==
  IF items = <<>> THEN st
  ELSE LET item == Head(items)
       IN DecrementAll([st EXCEPT ![item.productId] = @ - item.quantity], Tail(items))

\* order.findUnique with its items and the status check
CompleteStart(oid) ==
  /\ Accept
  /\ applied[oid] < MaxApplied
  /\ IF ~OrderExists(oid) THEN Finish(Idle, "complete", oid, "OrderNotFound")
     ELSE IF orders[oid].status # "PAYMENT_VERIFIED" THEN Finish(Idle, "complete", oid, "NotVerified")
     ELSE Continue(Idle, [Started("complete", "tx", oid) EXCEPT !.base = applied[oid]])
  /\ UNCHANGED <<stock, price, settings, orders, applied, nAdmin>>

\* the transaction commits: every decrement and the status update
CompleteTx(q) ==
  /\ q.op = "complete" /\ q.pc = "tx"
  /\ stock' = DecrementAll(stock, orders[q.oid].orderItems)
  /\ orders' = SetStatus(q.oid, "COMPLETED")
  /\ applied' = [applied EXCEPT ![q.oid] = @ + 1]
  /\ Finish(q, "complete", q.oid, "none")
  /\ UNCHANGED <<price, settings, nAdmin>>

\* the transaction is rolled back by the database (deadlock, timeout) and throws
CompleteTxAbort(q) ==
  /\ q.op = "complete" /\ q.pc = "tx"
  /\ Finish(q, "complete", q.oid, "Storage")
  /\ UNCHANGED <<stock, price, settings, orders, applied, nAdmin>>

\* -------------------------------------------------------------- cancelOrder
Cancellable == {"PENDING", "PAYMENT_UPLOADED", "PAYMENT_VERIFIED"}

\* order.findUnique and the status check
CancelStart(oid) ==
  /\ Accept
  /\ IF ~OrderExists(oid) THEN Finish(Idle, "cancel", oid, "OrderNotFound")
     ELSE IF orders[oid].status \notin Cancellable THEN Finish(Idle, "cancel", oid, "NotCancellable")
     ELSE Continue(Idle, Started("cancel", "write", oid))
  /\ UNCHANGED <<stock, price, settings, orders, applied, nAdmin>>

\* order.update({data: {status: 'CANCELLED'}})
CancelWrite(q) ==
  /\ q.op = "cancel" /\ q.pc = "write"
  /\ orders' = SetStatus(q.oid, "CANCELLED")
  /\ Finish(q, "cancel", q.oid, "none")
  /\ UNCHANGED <<stock, price, settings, applied, nAdmin>>

\* ------------------------------------------------------------ admin updates
\* The read of each admin update only supplies the defaults of the fields the
\* request leaves undefined, so the update is its write.
FlagInputs == {"undefined", "true", "false"}

Merge(flag, old) == IF flag = "undefined" THEN old ELSE (flag = "true")

UpdatePaymentMethodSetting(m, isEnabled, requiresProof) ==
  /\ nAdmin < MaxAdminOps
  /\ settings' = [settings EXCEPT ![m] = [isEnabled |-> Merge(isEnabled, @.isEnabled),
                                           requiresProof |-> Merge(requiresProof, @.requiresProof)]]
  /\ settings' # settings
  /\ nAdmin' = nAdmin + 1
  /\ resp' = NoResp
  /\ UNCHANGED <<stock, price, orders, applied, reqs>>

\* newPrice, newStock: -1 stands for a field the request leaves undefined
UpdateProduct(p, newPrice, newStock) ==
  /\ nAdmin < MaxAdminOps
  /\ price' = IF newPrice = -1 THEN price ELSE [price EXCEPT ![p] = newPrice]
  /\ stock' = IF newStock = -1 THEN stock ELSE [stock EXCEPT ![p] = newStock]
  /\ <<price', stock'>> # <<price, stock>>
  /\ nAdmin' = nAdmin + 1
  /\ resp' = NoResp
  /\ UNCHANGED <<settings, orders, applied, reqs>>

\* ------------------------------------------------------------------ time
\* new Date('YYYY-MM-DD'): midnight UTC of the day
ParseDate(d) == d * UnitsPerDay

\* setHours(0, 0, 0, 0): the local midnight at or before instant t
LocalMidnight(t, tz) == t - ((t + tz + UnitsPerDay) % UnitsPerDay)

\* toISOString().split('T')[0]: the UTC day of instant t
UtcDate(t) == t \div UnitsPerDay

\* toISOString()...substring(0, 7): the UTC month of instant t
UtcMonth(t) == UtcDate(t) \div DaysPerMonth

\* new Date(today.getFullYear(), today.getMonth() + k, 1): the local midnight
\* that starts the local month of instant t, or the k-th month after it
FirstDayOfMonth(t, tz, k) ==
  ((((t + tz) \div UnitsPerDay) \div DaysPerMonth) + k) * DaysPerMonth * UnitsPerDay - tz

\* ---------------------------------------------------------------- queries
RECURSIVE Ascending(_)
\* the ids of a set in ascending order (the order the rows were inserted in, which
\* is also ascending createdAt)
Ascending(S) ==
  IF S = {} THEN <<>>
  ELSE LET m == CHOOSE x \in S : \A y \in S : x <= y
       IN <<m>> \o Ascending(S \ {m})

\* variant: the where clause without the status
CreatedBetween(lo, hi) ==
  Ascending({o \in 1..Len(orders) : lo <= orders[o].createdAt /\ orders[o].createdAt <= hi})

\* variant: the where clause leaves out the cancelled orders only
NotCancelledBetween(lo, hi) ==
  Ascending({o \in 1..Len(orders) :
               /\ orders[o].status # "CANCELLED"
               /\ lo <= orders[o].createdAt /\ orders[o].createdAt <= hi})

\* order.findMany({where: {status: 'COMPLETED', createdAt: {gte: lo, lte: hi}}})
CompletedBetween(lo, hi) ==
  Ascending({o \in 1..Len(orders) :
               /\ orders[o].status = "COMPLETED"
               /\ lo <= orders[o].createdAt /\ orders[o].createdAt <= hi})

Reverse(seq) == [i \in 1..Len(seq) |-> seq[Len(seq) + 1 - i]]

\* variant: the last n entries
LastN(seq, n) == IF Len(seq) <= n THEN seq ELSE SubSeq(seq, Len(seq) - n + 1, Len(seq))

\* list.slice(0, n), findMany({take: n})
FirstN(seq, n) == IF Len(seq) <= n THEN seq ELSE SubSeq(seq, 1, n)

RECURSIVE SumTotalAmount(_)
\* completedOrders.reduce((sum, order) => sum + order.totalAmount, 0)
SumTotalAmount(ids) ==
  IF ids = <<>> THEN 0 ELSE orders[Head(ids)].totalAmount + SumTotalAmount(Tail(ids))

RECURSIVE SumCount(_)
\* productSales.reduce((sum, product) => sum + product.quantitySold, 0)
SumCount(groups) ==
  IF groups = <<>> THEN 0 ELSE Head(groups).count + SumCount(Tail(groups))

RECURSIVE ItemsOf(_)
\* the items of the orders of a list, order by order
ItemsOf(ids) ==
  IF ids = <<>> THEN <<>> ELSE orders[Head(ids)].orderItems \o ItemsOf(Tail(ids))

\* product.category.name; the two products of the catalog are of different categories
CategoryName(p) == IF p = 1 THEN "TCG_CARD" ELSE "ACCESSORY"

\* variant: the count and the amount of an entry are set, not added to
AddToGroupOverwrite(acc, key, count, amount) ==
  IF \E i \in 1..Len(acc) : acc[i].key = key
    THEN LET i == CHOOSE j \in 1..Len(acc) : acc[j].key = key
         IN [acc EXCEPT ![i] = [key |-> key, count |-> count, amount |-> amount]]
    ELSE Append(acc, [key |-> key, count |-> count, amount |-> amount])

\* one round of a grouping loop: the entry of the key is created at the end of
\* the map when it is new, then the count and the amount are added to it
AddToGroup(acc, key, count, amount) ==
  IF \E i \in 1..Len(acc) : acc[i].key = key
    THEN LET i == CHOOSE j \in 1..Len(acc) : acc[j].key = key
         IN [acc EXCEPT ![i] = [key |-> key, count |-> @.count + count,
                                amount |-> @.amount + amount]]
    ELSE Append(acc, [key |-> key, count |-> count, amount |-> amount])

RECURSIVE GroupOrders(_, _, _)
\* completedOrders.forEach over a map keyed by the UTC date ("date") or by the
\* payment method ("method"); Object.values keeps the order of first insertion
GroupOrders(ids, by, acc) ==
  IF ids = <<>> THEN acc
  ELSE LET order == orders[Head(ids)]
           key == IF by = "date" THEN UtcDate(order.createdAt) ELSE order.paymentMethod
       IN GroupOrders(Tail(ids), by, AddToGroup(acc, key, 1, order.totalAmount))

RECURSIVE GroupItems(_, _, _)
\* forEach over the items with a map keyed by the category name ("category") or by
\* the product id ("product")
GroupItems(items, by, acc) ==
  IF items = <<>> THEN acc
  ELSE LET item == Head(items)
           key == IF by = "category" THEN CategoryName(item.productId) ELSE item.productId
       IN GroupItems(Tail(items), by, AddToGroup(acc, key, item.quantity, item.subtotal))

\* Object.values of a map keyed by product id: integer keys come in ascending order
ByAscendingKey(groups) ==
  LET keys == Ascending({groups[i].key : i \in 1..Len(groups)})
  IN [i \in 1..Len(keys) |-> groups[CHOOSE j \in 1..Len(groups) : groups[j].key = keys[i]]]

\* one insertion of the stable descending sort: x goes before the first entry
\* whose field f is smaller
InsertDescending(sorted, x, f) ==
  LET smaller == {i \in 1..Len(sorted) : sorted[i][f] < x[f]}
  IN IF smaller = {} THEN Append(sorted, x)
     ELSE LET i == CHOOSE j \in smaller : \A k \in smaller : j <= k
          IN SubSeq(sorted, 1, i - 1) \o <<x>> \o SubSeq(sorted, i, Len(sorted))

RECURSIVE SortDescending(_, _, _)
\* list.sort((a, b) => b.f - a.f), which is stable
SortDescending(seq, f, sorted) ==
  IF seq = <<>> THEN sorted
  ELSE SortDescending(Tail(seq), f, InsertDescending(sorted, Head(seq), f))

\* the orders in which order.groupBy may return its groups (no orderBy is given)
Orderings(groups) ==
  {[i \in 1..Len(groups) |-> groups[f[i]]] :
     f \in {g \in [1..Len(groups) -> 1..Len(groups)] :
              \A i, j \in 1..Len(groups) : g[i] = g[j] => i = j}}

\* ---------------------------------------------------------------- reports
\* the response of a report: its body with status 200, or the controller's 400
Respond(q, op, err, body) ==
  /\ reqs' = reqs (-) SetToBag({q})
  /\ resp' = [NoResp EXCEPT !.op = op, !.err = err,
                            !.http = IF err = "none" THEN 200 ELSE 400,
                            !.date = q.date, !.tz = q.tz, !.body = body]

\* getDateRangeSalesReport: the controller's check of the two dates, the one query
\* and the totals and breakdowns computed from its rows
DateRangeReport(startDate, endDate, tz) ==
  LET q == [Idle EXCEPT !.tz = tz]
      start == LocalMidnight(ParseDate(startDate), tz)
      end == LocalMidnight(ParseDate(endDate), tz) + UnitsPerDay - 1
      completedOrders == CompletedBetween(start, end)
  IN
  /\ Accept
  /\ IF startDate = 0 \/ endDate = 0
       THEN Respond(q, "dateRange", "Validation", [startDate |-> startDate, endDate |-> endDate])
       ELSE Respond(q, "dateRange", "none",
              [startDate |-> startDate, endDate |-> endDate,
               totalSales |-> SumTotalAmount(completedOrders),
               totalOrderCount |-> Len(completedOrders),
               dailySales |-> GroupOrders(completedOrders, "date", <<>>),
               paymentMethods |-> GroupOrders(completedOrders, "method", <<>>),
               categorySales |-> GroupItems(ItemsOf(completedOrders), "category", <<>>)])
  /\ UNCHANGED <<stock, price, settings, orders, applied, nAdmin>>

\* getDailySalesReport up to its first query: the controller's check of the date,
\* order.findMany and everything computed from its rows
DailyStart(date, tz) ==
  LET q == [Idle EXCEPT !.op = "daily", !.pc = "groupBy", !.date = date, !.tz = tz]
      reportDate == LocalMidnight(ParseDate(date), tz)
      nextDay == reportDate + UnitsPerDay
      completedOrders == CompletedBetween(reportDate, nextDay - 1)
      productSales == SortDescending(ByAscendingKey(
                        GroupItems(ItemsOf(completedOrders), "product", <<>>)), "amount", <<>>)
  IN
  /\ Accept
  /\ IF date = 0
       THEN Respond(q, "daily", "Validation", <<>>)
       ELSE Continue(q, [q EXCEPT !.body =
              [date |-> reportDate,
               totalSales |-> SumTotalAmount(completedOrders),
               totalOrders |-> Len(completedOrders),
               totalItems |-> SumCount(productSales),
               productSales |-> productSales,
               categorySales |-> SortDescending(
                   GroupItems(ItemsOf(completedOrders), "category", <<>>), "amount", <<>>),
               orders |-> completedOrders]])
  /\ UNCHANGED <<stock, price, settings, orders, applied, nAdmin>>

\* order.groupBy by payment method over the same day, in the order the database
\* returns the groups; paymentMethodSetting.findMany then only adds the names
DailyGroupBy(q) ==
  LET nextDay == q.body.date + UnitsPerDay
      groups == GroupOrders(CompletedBetween(q.body.date, nextDay - 1), "method", <<>>)
  IN
  /\ q.op = "daily" /\ q.pc = "groupBy"
  /\ \E paymentMethods \in Orderings(groups) :
       Respond(q, "daily", "none", [paymentMethods |-> paymentMethods] @@ q.body)
  /\ UNCHANGED <<stock, price, settings, orders, applied, nAdmin>>

\* getSalesSummary up to its first query: order.aggregate over today
SummaryStart(now, tz) ==
  LET q == [Idle EXCEPT !.op = "summary", !.pc = "groupBy", !.date = now, !.tz = tz]
      today == LocalMidnight(now, tz)
      tomorrow == today + UnitsPerDay
      rows == CompletedBetween(today, tomorrow - 1)
  IN
  /\ Accept
  /\ now >= LastCreatedAt
  /\ Continue(q, [q EXCEPT !.body =
         [dailyTotalSales |-> SumTotalAmount(rows),
          dailyTotalOrders |-> Len(rows),
          timeInfo |-> [day |-> UtcDate(today),
                        month |-> UtcMonth(FirstDayOfMonth(today, tz, 0))]]])
  /\ UNCHANGED <<stock, price, settings, orders, applied, nAdmin>>

\* order.groupBy by payment method over today
SummaryGroupBy(q) ==
  LET today == LocalMidnight(q.date, q.tz)
      tomorrow == today + UnitsPerDay
      groups == GroupOrders(CompletedBetween(today, tomorrow - 1), "method", <<>>)
  IN
  /\ q.op = "summary" /\ q.pc = "groupBy"
  /\ \E paymentMethods \in Orderings(groups) :
       Continue(q, [q EXCEPT !.pc = "monthly",
                             !.body = [paymentMethods |-> paymentMethods] @@ q.body])
  /\ UNCHANGED <<stock, price, settings, orders, applied, nAdmin>>

\* orderItem.findMany over the month, grouped by product, sorted by quantity,
\* the first five
SummaryMonthly(q) ==
  LET today == LocalMidnight(q.date, q.tz)
      rows == CompletedBetween(FirstDayOfMonth(today, q.tz, 0), FirstDayOfMonth(today, q.tz, 1) - 1)
      salesByProduct == ByAscendingKey(GroupItems(ItemsOf(rows), "product", <<>>))
  IN
  /\ q.op = "summary" /\ q.pc = "monthly"
  /\ Continue(q, [q EXCEPT !.pc = "recent",
                           !.body = [topSellingProducts |->
                                       FirstN(SortDescending(salesByProduct, "count", <<>>), TopN)]
                                    @@ q.body])
  /\ UNCHANGED <<stock, price, settings, orders, applied, nAdmin>>

\* order.findMany of the COMPLETED orders, newest first, the first five
SummaryRecent(q) ==
  /\ q.op = "summary" /\ q.pc = "recent"
  /\ Respond(q, "summary", "none",
       [recentOrders |-> FirstN(Reverse(CompletedBetween(0, UnitsPerDay * (MaxDays + 2))), TopN)]
       @@ q.body)
  /\ UNCHANGED <<stock, price, settings, orders, applied, nAdmin>>

\* ---------------------------------------------------------------- system
Next ==
  \/ /\ Len(orders) + InFlightCreates < MaxOrders
     /\ \E hasName \in BOOLEAN, items \in ItemListInputs,
           m \in PaymentMethods \cup {"undefined"} : CreateStart(hasName, items, m)
  \/ \E q \in InFlight : CreateItem(q)
  \/ \E q \in InFlight : CreateInsert(q, FirstInstant)
  \/ \E oid \in OrderIdInputs, file \in FileInputs : UploadStart(oid, file)
  \/ \E q \in InFlight : UploadSetting(q)
  \/ \E q \in InFlight : UploadWrite(q)
  \/ \E oid \in OrderIdInputs : VerifyStart(oid)
  \/ \E q \in InFlight : VerifySetting(q)
  \/ \E q \in InFlight : VerifyWrite(q)
  \/ \E oid \in OrderIdInputs : CompleteStart(oid)
  \/ \E q \in InFlight : CompleteTx(q)
  \/ \E q \in InFlight : CompleteTxAbort(q)
  \/ \E oid \in OrderIdInputs : CancelStart(oid)
  \/ \E q \in InFlight : CancelWrite(q)
  \/ \E m \in SettingMethods, e \in FlagInputs, p \in FlagInputs : UpdatePaymentMethodSetting(m, e, p)
  \/ \E p \in Products, np \in PriceInputs \cup {-1}, ns \in StockInputs \cup {-1} : UpdateProduct(p, np, ns)

Spec == Init /\ [][Next]_vars

\* ------------------------------------------------- requests one at a time
\* The order handlers called one after the other: a request arrives only when no
\* handler is in flight.  No admin update, no rollback by the database.
SeqItemListInputs == {<<item>> : item \in ItemInputs}
SeqOrderIdInputs == 1..SeqMaxOrders
SeqFileInputs == {0, 1, 2}    \* 0: no file; 1, 2: two different files

SeqNext ==
  \/ /\ reqs = EmptyBag /\ Len(orders) < SeqMaxOrders
     /\ \E hasName \in BOOLEAN, items \in SeqItemListInputs,
           m \in PaymentMethods \cup {"undefined"} : CreateStart(hasName, items, m)
  \/ \E q \in InFlight : CreateItem(q)
  \/ \E q \in InFlight : CreateInsert(q, FirstInstant)
  \/ reqs = EmptyBag /\ \E oid \in SeqOrderIdInputs, file \in SeqFileInputs : UploadStart(oid, file)
  \/ \E q \in InFlight : UploadSetting(q)
  \/ \E q \in InFlight : UploadWrite(q)
  \/ reqs = EmptyBag /\ \E oid \in SeqOrderIdInputs : VerifyStart(oid)
  \/ \E q \in InFlight : VerifySetting(q)
  \/ \E q \in InFlight : VerifyWrite(q)
  \/ reqs = EmptyBag /\ \E oid \in SeqOrderIdInputs : CompleteStart(oid)
  \/ \E q \in InFlight : CompleteTx(q)
  \/ reqs = EmptyBag /\ \E oid \in SeqOrderIdInputs : CancelStart(oid)
  \/ \E q \in InFlight : CancelWrite(q)

SeqSpec == Init /\ [][SeqNext]_vars

\* ------------------------------------------------------ orders and reports
\* Orders created on different days and taken through their lifecycle, and the
\* three reports run on them; requests one at a time.
ReportItemListInputs ==
  {<<[productId |-> 2, quantity |-> 1]>>,
   <<[productId |-> 1, quantity |-> 1], [productId |-> 2, quantity |-> 1]>>}
ReportMethodInputs == {"BANK_TRANSFER", "CASH"}

ReportNext ==
  \/ /\ reqs = EmptyBag /\ Len(orders) < SeqMaxOrders
     /\ \E items \in ReportItemListInputs, m \in ReportMethodInputs : CreateStart(TRUE, items, m)
  \/ \E q \in InFlight : CreateItem(q)
  \/ \E q \in InFlight, now \in Instants : CreateInsert(q, now)
  \/ reqs = EmptyBag /\ \E oid \in SeqOrderIdInputs : UploadStart(oid, 1)
  \/ \E q \in InFlight : UploadSetting(q)
  \/ \E q \in InFlight : UploadWrite(q)
  \/ reqs = EmptyBag /\ \E oid \in SeqOrderIdInputs : VerifyStart(oid)
  \/ \E q \in InFlight : VerifySetting(q)
  \/ \E q \in InFlight : VerifyWrite(q)
  \/ reqs = EmptyBag /\ \E oid \in SeqOrderIdInputs : CompleteStart(oid)
  \/ \E q \in InFlight : CompleteTx(q)
  \/ reqs = EmptyBag /\ \E oid \in SeqOrderIdInputs : CancelStart(oid)
  \/ \E q \in InFlight : CancelWrite(q)
  \/ reqs = EmptyBag /\ \E startDate \in DateInputs, endDate \in DateInputs, tz \in TzShifts :
                          DateRangeReport(startDate, endDate, tz)
  \/ reqs = EmptyBag /\ \E date \in DateInputs, tz \in TzShifts : DailyStart(date, tz)
  \/ \E q \in InFlight : DailyGroupBy(q)
  \/ reqs = EmptyBag /\ \E now \in Instants, tz \in TzShifts : SummaryStart(now, tz)
  \/ \E q \in InFlight : SummaryGroupBy(q)
  \/ \E q \in InFlight : SummaryMonthly(q)
  \/ \E q \in InFlight : SummaryRecent(q)

ReportSpec == Init /\ [][ReportNext]_vars

\* ------------------------------------------- reports beside order handlers
\* The reports called while complete and cancel handlers are in flight: the
\* queries of one report can see different states of the orders.
RaceItemListInputs == {<<[productId |-> 1, quantity |-> 1]>>}
RaceTz == 0

ReportRaceNext ==
  \/ /\ Len(orders) + InFlightCreates < SeqMaxOrders
     /\ \E items \in RaceItemListInputs : CreateStart(TRUE, items, "CASH")
  \/ \E q \in InFlight : CreateItem(q)
  \/ \E q \in InFlight, now \in Instants : CreateInsert(q, now)
  \/ \E oid \in SeqOrderIdInputs : CompleteStart(oid)
  \/ \E q \in InFlight : CompleteTx(q)
  \/ \E oid \in SeqOrderIdInputs : CancelStart(oid)
  \/ \E q \in InFlight : CancelWrite(q)
  \/ \E startDate \in DateInputs, endDate \in DateInputs : DateRangeReport(startDate, endDate, RaceTz)
  \/ \E date \in DateInputs : DailyStart(date, RaceTz)
  \/ \E q \in InFlight : DailyGroupBy(q)
  \/ \E now \in Instants : SummaryStart(now, RaceTz)
  \/ \E q \in InFlight : SummaryGroupBy(q)
  \/ \E q \in InFlight : SummaryMonthly(q)
  \/ \E q \in InFlight : SummaryRecent(q)

ReportRaceSpec == Init /\ [][ReportRaceNext]_vars

\* ------------------------------------------------- the top-selling list
\* getSalesSummary on a catalog of more products than the list can hold.  The
\* start is a database after some sales: a first order with any items of the
\* catalog, COMPLETED, and possibly a second order of one item, COMPLETED or
\* not and created at the same instant or later; then the summary is called.
TopCatalog == 1..TopProducts

RECURSIVE ItemsFrom(_, _)
\* the items of an order that takes quantity f[p] of every product p (0: none)
ItemsFrom(f, p) ==
  IF p > TopProducts THEN <<>>
  ELSE (IF f[p] = 0 THEN <<>>
        ELSE <<[productId |-> p, quantity |-> f[p], subtotal |-> InitPrice * f[p]]>>)
       \o ItemsFrom(f, p + 1)

RECURSIVE TotalFrom(_, _)
TotalFrom(f, p) == IF p > TopProducts THEN 0 ELSE InitPrice * f[p] + TotalFrom(f, p + 1)

TopOrder(f, status, createdAt) ==
  [status |-> status, paymentMethod |-> "CASH", orderItems |-> ItemsFrom(f, 1),
   totalAmount |-> TotalFrom(f, 1), paymentProof |-> 0, createdAt |-> createdAt]

\* the quantities of the first order, and those of a second order of one item
TopFirstInputs == {f \in [TopCatalog -> 0..MaxQty] : \E p \in TopCatalog : f[p] > 0}
TopSecondInputs ==
  {[p \in TopCatalog |-> IF p = only THEN MaxQty ELSE 0] : only \in TopCatalog}

TopInit ==
  /\ stock = [p \in TopCatalog |-> InitStock]
  /\ price = [p \in TopCatalog |-> InitPrice]
  /\ settings = SeedSettings
  /\ \E f \in TopFirstInputs :
       \/ orders = <<TopOrder(f, "COMPLETED", FirstInstant)>>
       \/ \E g \in TopSecondInputs, status \in {"PAYMENT_VERIFIED", "COMPLETED"},
             createdAt \in {FirstInstant, FirstInstant + UnitsPerDay} :
            orders = <<TopOrder(f, "COMPLETED", FirstInstant), TopOrder(g, status, createdAt)>>
  /\ applied = [o \in 1..SeqMaxOrders |->
                  IF o <= Len(orders) /\ orders[o].status = "COMPLETED" THEN 1 ELSE 0]
  /\ reqs = EmptyBag
  /\ resp = NoResp
  /\ nAdmin = 0

TopNext ==
  \/ reqs = EmptyBag /\ \E now \in Instants, tz \in TzShifts : SummaryStart(now, tz)
  \/ \E q \in InFlight : SummaryGroupBy(q)
  \/ \E q \in InFlight : SummaryMonthly(q)
  \/ \E q \in InFlight : SummaryRecent(q)

TopSpec == TopInit /\ [][TopNext]_vars

\* ================================================================ properties
OrderIds == 1..Len(orders)

\* the step is the last one of the handler in state q (it returns or throws)
Finishes(q) == q \in InFlight /\ reqs' = reqs (-) SetToBag({q}) /\ resp' # NoResp

\* the step commits the transaction of a completeOrder handler in state q
Commits(q) ==
  /\ q.op = "complete" /\ q.pc = "tx" /\ Finishes(q)
  /\ resp'.op = "complete" /\ resp'.oid = q.oid /\ resp'.err = "none"

\* ---------------------------------------------------------------- C1
\* C1: of the completeOrder calls that read the same order in the same
\* PAYMENT_VERIFIED state, only one commits: when a call commits, no other call
\* has decremented the stock for this order since this call read it.
C1_ConcurrentCompleteOnce ==
  [][\A q \in InFlight : Commits(q) => applied[q.oid] = q.base]_vars

\* ---------------------------------------------------------------- C2
\* C2: in no reachable state has the stock been decremented for an order whose
\* status is not COMPLETED, and no order is COMPLETED without the decrement.
C2_CompletionAtomic ==
  \A o \in OrderIds : (applied[o] > 0) <=> (orders[o].status = "COMPLETED")

\* ---------------------------------------------------------------- C3
\* C3: a completeOrder step taken while the order is not PAYMENT_VERIFIED changes no
\* stock, and the call ends with the invalid-state error (status 400); a rollback
\* by the database is left aside.
C3_CompleteRequiresVerified ==
  [][\A q \in InFlight :
       (/\ q.op = "complete" /\ Finishes(q)
        /\ orders[q.oid].status # "PAYMENT_VERIFIED"
        /\ resp'.err # "Storage")
       => (stock' = stock /\ resp'.err = "NotVerified" /\ resp'.http = 400)]_vars

\* ---------------------------------------------------------------- C4
\* C4: once the status of an order is COMPLETED or CANCELLED no step changes it.
C4_TerminalStatus ==
  [][\A o \in OrderIds :
       orders[o].status \in {"COMPLETED", "CANCELLED"} => orders'[o].status = orders[o].status]_vars

\* ---------------------------------------------------------------- C5
\* C5: no cancelOrder call reports success for an order whose stock has been
\* decremented by a completeOrder call.
C5_CancelExcludesComplete ==
  (resp.op = "cancel" /\ resp.err = "none") => applied[resp.oid] = 0

\* ---------------------------------------------------------------- C6
\* C6: an order is created in PENDING when the setting found for its payment
\* method has requiresProof = true and in PAYMENT_VERIFIED when it has
\* requiresProof = false.
C6_InitialStatusByRequiresProof ==
  [][\A q \in InFlight :
       (q.op = "create" /\ q.pc = "insert" /\ Finishes(q) /\ Len(orders') = Len(orders) + 1)
       => orders'[Len(orders')].status = (IF q.readProof THEN "PENDING" ELSE "PAYMENT_VERIFIED")]_vars

\* ---------------------------------------------------------------- C7
DefaultMethod(given) == IF given = "undefined" THEN "BANK_TRANSFER" ELSE given

Available(m) == m \in SettingMethods /\ settings[m].isEnabled

\* C7: a createOrder call goes on to validate its items only when the method it
\* uses (BANK_TRANSFER when none is given) has an enabled setting; the call
\* rejected for its method leaves no handler and no order behind; and an order is
\* only ever inserted by a createOrder handler, with the method that passed.
C7_UnavailableMethodRejected ==
  [][/\ \A q2 \in BagToSet(reqs') :
          (/\ q2.op = "create" /\ q2.pc = "items" /\ q2.orderItems = <<>>
           /\ CopiesIn(q2, reqs') > CopiesIn(q2, reqs))
          => (q2.paymentMethod = DefaultMethod(q2.given) /\ Available(q2.paymentMethod))
     /\ (resp'.op = "create" /\ resp'.err = "NotAvailable")
          => (/\ orders' = orders /\ reqs' = reqs /\ resp'.http >= 400
              /\ resp'.paymentMethod = DefaultMethod(resp'.given) /\ ~Available(resp'.paymentMethod))
     /\ orders' # orders /\ Len(orders') # Len(orders)
          => \E q \in InFlight :
               /\ q.op = "create" /\ q.pc = "insert" /\ Finishes(q)
               /\ Len(orders') = Len(orders) + 1
               /\ orders'[Len(orders')].paymentMethod = q.paymentMethod]_vars

\* C7 witness: a request without a method was rejected because the setting of
\* BANK_TRANSFER is disabled, and nothing is persisted
C7_Witness ==
  /\ resp.op = "create" /\ resp.err = "NotAvailable"
  /\ resp.given = "undefined" /\ resp.paymentMethod = "BANK_TRANSFER"
  /\ ~settings["BANK_TRANSFER"].isEnabled
  /\ orders = <<>> /\ reqs = EmptyBag

\* ---------------------------------------------------------------- C8
\* C8 as stated: a createOrder call that passes the controller's validation and has
\* an item whose quantity exceeds the stock of its product ends with the
\* insufficient-stock error.
C8_AnyShortItemInsufficientStock ==
  (resp.op = "create" /\ resp.short /\ resp.err # "Validation") => resp.err = "InsufficientStock"

\* C8 amended: when the validation loop reaches an item whose quantity exceeds the
\* stock of its product, the call ends there with the insufficient-stock error
\* (status 400) and no order is persisted, whatever number of items validated before.
C8_ShortItemAtCheckRejected ==
  [][\A q \in InFlight :
       (/\ q.op = "create" /\ q.pc = "items"
        /\ CopiesIn(q, reqs') < CopiesIn(q, reqs)
        /\ Head(q.items).productId \in Products
        /\ stock[Head(q.items).productId] < Head(q.items).quantity)
       => (/\ Finishes(q) /\ resp'.op = "create" /\ resp'.err = "InsufficientStock"
           /\ resp'.http = 400 /\ orders' = orders)]_vars

\* C8 witness: the second item was short after the first had validated
C8_Witness ==
  /\ resp.op = "create" /\ resp.err = "InsufficientStock" /\ resp.nOk > 0 /\ resp.short
  /\ orders = <<>> /\ reqs = EmptyBag

\* ---------------------------------------------------------------- C9
\* C9: at the step that persists an order, the quantity of each of its items is at
\* most the stock of the item's product.
C9_StockSufficientAtInsert ==
  [][Len(orders') = Len(orders) + 1
     => \A i \in 1..Len(orders'[Len(orders')].orderItems) :
          LET item == orders'[Len(orders')].orderItems[i]
          IN item.quantity <= stock[item.productId]]_vars

\* ---------------------------------------------------------------- C10
RECURSIVE SumQty(_, _)
\* the quantities of the items of a list that name product p
SumQty(items, p) ==
  IF items = <<>> THEN 0
  ELSE (IF Head(items).productId = p THEN Head(items).quantity ELSE 0) + SumQty(Tail(items), p)

\* C10: a step of an order handler changes the stock only when it commits a
\* completeOrder, and then every product loses exactly the quantities of the
\* order's items that name it (nothing for a product no item names).
C10_OnlyCompleteChangesStock ==
  [][nAdmin' = nAdmin =>
       IF \E q \in InFlight : Commits(q)
         THEN \E q \in InFlight :
                /\ Commits(q)
                /\ stock' = [p \in Products |-> stock[p] - SumQty(orders[q.oid].orderItems, p)]
         ELSE stock' = stock]_vars

\* C10 witness: an order of one item of the largest quantity was completed; its
\* product lost that quantity and the other product kept its stock
C10_Witness ==
  /\ resp.op = "complete" /\ resp.err = "none"
  /\ nAdmin = 0 /\ applied[resp.oid] = 1
  /\ \E p1, p2 \in Products :
       /\ p1 # p2
       /\ Len(orders[resp.oid].orderItems) = 1
       /\ orders[resp.oid].orderItems[1].productId = p1
       /\ orders[resp.oid].orderItems[1].quantity = MaxQty
       /\ stock[p1] = InitStock - MaxQty
       /\ stock[p2] = InitStock

\* ---------------------------------------------------------------- C11
RECURSIVE SumSubtotals(_)
SumSubtotals(items) ==
  IF items = <<>> THEN 0 ELSE Head(items).subtotal + SumSubtotals(Tail(items))

\* C11: after every step the totalAmount of every order is the sum of the
\* subtotals of its items, and no step changes the totalAmount or the items (with
\* their subtotals) of an order that exists.
C11_TotalIsSumOfSubtotals ==
  [][/\ \A o \in 1..Len(orders') :
          orders'[o].totalAmount = SumSubtotals(orders'[o].orderItems)
     /\ \A o \in OrderIds :
          /\ orders'[o].totalAmount = orders[o].totalAmount
          /\ orders'[o].orderItems = orders[o].orderItems]_vars

\* C11 witness: an order of two items went through to COMPLETED and its total is
\* the sum of its two subtotals
C11_Witness ==
  \E o \in OrderIds :
    /\ orders[o].status = "COMPLETED"
    /\ Len(orders[o].orderItems) = 2
    /\ orders[o].totalAmount = orders[o].orderItems[1].subtotal + orders[o].orderItems[2].subtotal
    /\ orders[o].totalAmount > orders[o].orderItems[2].subtotal

\* ---------------------------------------------------------------- C12
\* C12: each item a createOrder call validates gets the subtotal price times
\* quantity at the price its product has when the call reads it, the total grows by
\* that subtotal, the order is inserted with exactly these items and this total, and
\* a step that changes a price changes no order.
C12_TotalAtCreationPrices ==
  [][/\ \A q \in InFlight :
          (/\ q.op = "create" /\ q.pc = "items"
           /\ CopiesIn(q, reqs') < CopiesIn(q, reqs) /\ resp' = NoResp)
          => \E q2 \in BagToSet(reqs') :
               LET item == Head(q.items)
                   sub == price[item.productId] * item.quantity
               IN /\ CopiesIn(q2, reqs') > CopiesIn(q2, reqs)
                  /\ q2.orderItems = Append(q.orderItems,
                                            [productId |-> item.productId,
                                             quantity |-> item.quantity, subtotal |-> sub])
                  /\ q2.totalAmount = q.totalAmount + sub
     /\ Len(orders') = Len(orders) + 1
          => \E q \in InFlight :
               /\ q.op = "create" /\ q.pc = "insert" /\ Finishes(q)
               /\ orders'[Len(orders')].orderItems = q.orderItems
               /\ orders'[Len(orders')].totalAmount = q.totalAmount
     /\ price' # price => orders' = orders]_vars

\* C12 witness: the price of a product was raised after an order with an item of
\* it was created, and the item still has the subtotal at the earlier price
C12_Witness ==
  \E o \in OrderIds :
    LET item == orders[o].orderItems[1]
    IN /\ price[item.productId] = InitPrice + 1
       /\ item.subtotal = InitPrice * item.quantity
       /\ orders[o].totalAmount = SumSubtotals(orders[o].orderItems)
       /\ reqs = EmptyBag

\* ---------------------------------------------------------------- C13
\* C13: an uploadPaymentProof call succeeds only on an order that is PENDING when
\* the proof is written (the setting the call read for the payment method of the
\* order had requiresProof = true: UploadSetting lets no other call through).
C13_UploadOnlyFromPending ==
  [][\A q \in InFlight :
       (q.op = "upload" /\ Finishes(q) /\ resp'.err = "none")
       => orders[q.oid].status = "PENDING"]_vars

\* ---------------------------------------------------------------- C14
\* C14: with requests one at a time, an uploadPaymentProof call that carries a
\* file for an order that holds the proof of an earlier call, with another file,
\* succeeds, and afterwards the proof of the order is the file of this call.
C14_SecondUploadReplaces ==
  [][(/\ resp'.op = "upload" /\ resp' # resp /\ resp'.file # 0
      /\ OrderExists(resp'.oid) /\ orders[resp'.oid].paymentProof # 0
      /\ orders[resp'.oid].paymentProof # resp'.file
      /\ orders[resp'.oid].status = "PAYMENT_UPLOADED")
     => (resp'.err = "none" /\ orders'[resp'.oid].paymentProof = resp'.file)]_vars

\* ---------------------------------------------------------------- C15
\* C15: a verifyPayment call that read the order in PAYMENT_UPLOADED with a proof
\* passes its checks and goes on to write PAYMENT_VERIFIED, whatever the setting of
\* the payment method is by then.
C15_VerifyUploadedWhateverSetting ==
  [][\A q \in InFlight :
       (/\ q.op = "verify" /\ q.pc = "setting"
        /\ CopiesIn(q, reqs') < CopiesIn(q, reqs)
        /\ q.snap.status = "PAYMENT_UPLOADED" /\ q.snap.paymentProof # 0)
       => resp' = NoResp]_vars

\* ---------------------------------------------------------------- C16
\* C16: for a payment method whose setting has requiresProof = false, a
\* verifyPayment call succeeds only on an order that is PENDING or
\* PAYMENT_VERIFIED when the status is written (it is rejected from
\* PAYMENT_UPLOADED, COMPLETED and CANCELLED).
C16_NoProofVerifyOnlyFromPendingOrVerified ==
  [][\A q \in InFlight :
       (/\ q.op = "verify" /\ Finishes(q) /\ resp'.err = "none"
        /\ HasSetting(orders[q.oid].paymentMethod)
        /\ ~settings[orders[q.oid].paymentMethod].requiresProof)
       => orders[q.oid].status \in {"PENDING", "PAYMENT_VERIFIED"}]_vars

\* ---------------------------------------------------------------- C17
\* C17: a cancelOrder call succeeds only on an order that is PENDING,
\* PAYMENT_UPLOADED or PAYMENT_VERIFIED when CANCELLED is written; on a COMPLETED
\* or CANCELLED order it is rejected and the status stays.
C17_CancelOnlyFromOpenStatus ==
  [][\A q \in InFlight :
       (q.op = "cancel" /\ Finishes(q))
       => IF orders[q.oid].status \in {"PENDING", "PAYMENT_UPLOADED", "PAYMENT_VERIFIED"}
            THEN resp'.err = "none" /\ orders'[q.oid].status = "CANCELLED"
            ELSE resp'.err # "none" /\ orders'[q.oid].status = orders[q.oid].status]_vars

\* ---------------------------------------------------------------- C18
\* an order of BANK_TRANSFER (its setting requires a proof) with a single item
SingleItemProofOrder(o) ==
  /\ o \in OrderIds
  /\ orders[o].paymentMethod = "BANK_TRANSFER"
  /\ settings["BANK_TRANSFER"].requiresProof
  /\ Len(orders[o].orderItems) = 1

LifecycleSteps ==
  {<<"PENDING", "PAYMENT_UPLOADED">>, <<"PAYMENT_UPLOADED", "PAYMENT_VERIFIED">>,
   <<"PAYMENT_VERIFIED", "COMPLETED">>}

\* C18: with requests one at a time, for an order of a proof-requiring method with
\* one item of quantity q on a product with stock >= q: createOrder goes through
\* and inserts it PENDING; uploadPaymentProof on it while PENDING goes through and
\* makes it PAYMENT_UPLOADED with the proof; verifyPayment on it while
\* PAYMENT_UPLOADED goes through and makes it PAYMENT_VERIFIED; completeOrder on it
\* while PAYMENT_VERIFIED goes through, makes it COMPLETED and takes exactly q
\* from the stock of the product; none of the first three changes any stock, no
\* such call is rejected at its first step, and the status of the order only moves
\* one step along PENDING, PAYMENT_UPLOADED, PAYMENT_VERIFIED, COMPLETED unless it
\* is cancelled.
C18_SequentialLifecycle ==
  [][/\ \A q \in InFlight :
          CASE /\ q.op = "create" /\ q.pc = "items" /\ q.paymentMethod = "BANK_TRANSFER"
               /\ Len(q.items) = 1 /\ q.orderItems = <<>>
               /\ Head(q.items).productId \in Products
               /\ Head(q.items).quantity <= stock[Head(q.items).productId]
                 -> /\ resp' = NoResp /\ stock' = stock /\ orders' = orders
                    /\ \E q2 \in BagToSet(reqs') : q2.op = "create" /\ q2.pc = "insert"
            [] q.op = "create" /\ q.pc = "insert" /\ q.paymentMethod = "BANK_TRANSFER"
                 -> /\ Len(orders') = Len(orders) + 1
                    /\ orders'[Len(orders')].status = "PENDING"
                    /\ resp'.op = "create" /\ resp'.err = "none" /\ resp'.http = 201
                    /\ stock' = stock
            [] q.op = "upload" /\ SingleItemProofOrder(q.oid) /\ orders[q.oid].status = "PENDING"
                 -> IF q.pc = "setting"
                      THEN resp' = NoResp /\ stock' = stock /\ orders' = orders
                      ELSE /\ resp'.op = "upload" /\ resp'.err = "none" /\ resp'.http = 200
                           /\ orders'[q.oid].status = "PAYMENT_UPLOADED"
                           /\ orders'[q.oid].paymentProof = q.file /\ q.file # 0
                           /\ stock' = stock
            [] q.op = "verify" /\ SingleItemProofOrder(q.oid)
               /\ orders[q.oid].status = "PAYMENT_UPLOADED"
                 -> IF q.pc = "setting"
                      THEN resp' = NoResp /\ stock' = stock /\ orders' = orders
                      ELSE /\ resp'.op = "verify" /\ resp'.err = "none" /\ resp'.http = 200
                           /\ orders'[q.oid].status = "PAYMENT_VERIFIED"
                           /\ stock' = stock
            [] q.op = "complete" /\ SingleItemProofOrder(q.oid)
               /\ orders[q.oid].status = "PAYMENT_VERIFIED"
                 -> LET item == orders[q.oid].orderItems[1]
                    IN /\ resp'.op = "complete" /\ resp'.err = "none" /\ resp'.http = 200
                       /\ orders'[q.oid].status = "COMPLETED"
                       /\ stock' = [stock EXCEPT ![item.productId] = @ - item.quantity]
            [] OTHER -> TRUE
     /\ (/\ reqs = EmptyBag /\ reqs' = EmptyBag /\ SingleItemProofOrder(resp'.oid)
         /\ \/ resp'.op = "upload" /\ resp'.file # 0 /\ orders[resp'.oid].status = "PENDING"
            \/ resp'.op = "verify" /\ orders[resp'.oid].status = "PAYMENT_UPLOADED"
            \/ resp'.op = "complete" /\ orders[resp'.oid].status = "PAYMENT_VERIFIED")
          => FALSE
     /\ \A o \in OrderIds :
          (orders[o].paymentMethod = "BANK_TRANSFER" /\ orders'[o].status # orders[o].status)
          => \/ <<orders[o].status, orders'[o].status>> \in LifecycleSteps
             \/ orders'[o].status = "CANCELLED"]_vars

\* C18 witness: the only order, of BANK_TRANSFER with one item of the largest
\* quantity, has just been completed with its proof on it and its product has
\* lost that quantity
C18_Witness ==
  /\ resp.op = "complete" /\ resp.err = "none" /\ Len(orders) = 1
  /\ SingleItemProofOrder(1)
  /\ orders[1].status = "COMPLETED" /\ orders[1].paymentProof # 0
  /\ orders[1].orderItems[1].quantity = MaxQty
  /\ stock[orders[1].orderItems[1].productId] = InitStock - MaxQty

\* ---------------------------------------------------------------- C19
\* C19: the stock of every product is at least 0 in every reachable state.
C19_StockNonNegative == \A p \in Products : stock[p] >= 0

\* ---------------------------------------------------------------- C20
\* no order is COMPLETED with createdAt from lo to hi
NoneCompletedBetween(lo, hi) ==
  \A o \in OrderIds :
    ~(orders[o].status = "COMPLETED" /\ lo <= orders[o].createdAt /\ orders[o].createdAt <= hi)

\* C20: with requests one at a time, a date-range report with both dates given is
\* answered with status 200, and when no COMPLETED order was created from the
\* local midnight that starts its first day to the end of its last day, its
\* totals are 0 and its three breakdowns are empty; the daily report of a day
\* without a COMPLETED order has totals 0 and empty lists; the summary has daily
\* totals 0 and no payment methods when no COMPLETED order is of today, no top
\* product when none is of this month and no recent order when there is none.
C20_EmptyReports ==
  [][/\ resp'.op = "dateRange"
          => LET b == resp'.body
                 start == LocalMidnight(ParseDate(b.startDate), resp'.tz)
                 end == LocalMidnight(ParseDate(b.endDate), resp'.tz) + UnitsPerDay - 1
             IN /\ (b.startDate # 0 /\ b.endDate # 0) <=> (resp'.err = "none" /\ resp'.http = 200)
                /\ (resp'.err = "none" /\ NoneCompletedBetween(start, end))
                     => /\ b.totalSales = 0 /\ b.totalOrderCount = 0
                        /\ b.dailySales = <<>> /\ b.paymentMethods = <<>>
                        /\ b.categorySales = <<>>
     /\ (resp'.op = "daily" /\ resp'.err = "none")
          => LET b == resp'.body
             IN /\ resp'.http = 200
                /\ b.date = LocalMidnight(ParseDate(resp'.date), resp'.tz)
                /\ NoneCompletedBetween(b.date, b.date + UnitsPerDay - 1)
                     => /\ b.totalSales = 0 /\ b.totalOrders = 0 /\ b.totalItems = 0
                        /\ b.paymentMethods = <<>> /\ b.productSales = <<>>
                        /\ b.categorySales = <<>> /\ b.orders = <<>>
     /\ resp'.op = "summary"
          => LET b == resp'.body
                 today == LocalMidnight(resp'.date, resp'.tz)
             IN /\ resp'.err = "none" /\ resp'.http = 200
                /\ NoneCompletedBetween(today, today + UnitsPerDay - 1)
                     => /\ b.dailyTotalSales = 0 /\ b.dailyTotalOrders = 0
                        /\ b.paymentMethods = <<>>
                /\ NoneCompletedBetween(FirstDayOfMonth(today, resp'.tz, 0),
                                        FirstDayOfMonth(today, resp'.tz, 1) - 1)
                     => b.topSellingProducts = <<>>
                /\ (\A o \in OrderIds : orders[o].status # "COMPLETED")
                     => b.recentOrders = <<>>]_vars

\* C20 witness: a date-range report came back empty although one order is
\* COMPLETED outside its range and another order, not COMPLETED, was created
\* inside it
C20_Witness ==
  /\ resp.op = "dateRange" /\ resp.err = "none" /\ resp.http = 200
  /\ resp.body.totalSales = 0 /\ resp.body.totalOrderCount = 0
  /\ resp.body.dailySales = <<>> /\ resp.body.paymentMethods = <<>>
  /\ resp.body.categorySales = <<>>
  /\ LET start == LocalMidnight(ParseDate(resp.body.startDate), resp.tz)
         end == LocalMidnight(ParseDate(resp.body.endDate), resp.tz) + UnitsPerDay - 1
     IN /\ start <= end
        /\ \E o1, o2 \in OrderIds :
             /\ orders[o1].status = "COMPLETED"
             /\ ~(start <= orders[o1].createdAt /\ orders[o1].createdAt <= end)
             /\ orders[o2].status # "COMPLETED"
             /\ start <= orders[o2].createdAt /\ orders[o2].createdAt <= end

\* ---------------------------------------------------------------- C21
RECURSIVE SumOver(_, _)
\* the sum of f[x] over the x of the finite set S
SumOver(S, f) ==
  IF S = {} THEN 0
  ELSE LET x == CHOOSE y \in S : TRUE IN f[x] + SumOver(S \ {x}, f)

\* the orders that are COMPLETED now and were created in [lo, hi]
CountedNow(lo, hi) ==
  {o \in OrderIds : /\ orders[o].status = "COMPLETED"
                    /\ lo <= orders[o].createdAt /\ orders[o].createdAt <= hi}

SalesOf(S) == SumOver(S, [o \in S |-> orders[o].totalAmount])

QuantityOf(S, P) ==
  SumOver(S, [o \in S |->
    LET items == orders[o].orderItems
        of == {i \in 1..Len(items) : items[i].productId \in P}
    IN SumOver(of, [i \in of |-> items[i].quantity])])

GroupCounts(G) == SumOver(1..Len(G), [i \in 1..Len(G) |-> G[i].count])
GroupAmounts(G) == SumOver(1..Len(G), [i \in 1..Len(G) |-> G[i].amount])
GroupKeys(G) == {G[i].key : i \in 1..Len(G)}

\* a breakdown of orders holds the orders of S and nothing else
OrdersOnlyOf(G, S, keys) ==
  /\ GroupCounts(G) = Cardinality(S)
  /\ GroupAmounts(G) = SalesOf(S)
  /\ GroupKeys(G) = keys

\* the handler states a step has put in flight
NewHandlers == {q \in BagToSet(reqs') : CopiesIn(q, reqs') > CopiesIn(q, reqs)}

ReportOps == {"dateRange", "daily", "summary"}

\* the step is a query of a report
ReportStep ==
  \/ resp'.op \in ReportOps
  \/ \E q \in NewHandlers : q.op \in ReportOps

\* C21: every query of a report counts the orders that are COMPLETED when it
\* runs and no other order: each total and each breakdown a query produces is
\* the one of the orders COMPLETED at that moment in the window of the report,
\* so that orders of any other status add nothing; and no step of a report
\* changes an order, its items, its proof or the stock.
C21_ReportsCountCompletedOnly ==
  [][/\ ReportStep => UNCHANGED <<stock, price, settings, orders, applied>>
     /\ (resp'.op = "dateRange" /\ resp'.err = "none") =>
          LET b == resp'.body
              lo == LocalMidnight(ParseDate(b.startDate), resp'.tz)
              hi == LocalMidnight(ParseDate(b.endDate), resp'.tz) + UnitsPerDay - 1
              S == CountedNow(lo, hi)
          IN /\ b.totalSales = SalesOf(S) /\ b.totalOrderCount = Cardinality(S)
             /\ OrdersOnlyOf(b.dailySales, S, {UtcDate(orders[o].createdAt) : o \in S})
             /\ OrdersOnlyOf(b.paymentMethods, S, {orders[o].paymentMethod : o \in S})
             /\ GroupCounts(b.categorySales) = QuantityOf(S, Products)
     /\ \A q \in NewHandlers : (q.op = "daily" /\ q.pc = "groupBy") =>
          LET b == q.body
              S == CountedNow(b.date, b.date + UnitsPerDay - 1)
          IN /\ b.totalSales = SalesOf(S) /\ b.totalOrders = Cardinality(S)
             /\ {b.orders[i] : i \in 1..Len(b.orders)} = S
             /\ b.totalItems = QuantityOf(S, Products)
             /\ GroupCounts(b.productSales) = QuantityOf(S, Products)
             /\ \A i \in 1..Len(b.productSales) :
                  b.productSales[i].count = QuantityOf(S, {b.productSales[i].key})
             /\ GroupCounts(b.categorySales) = QuantityOf(S, Products)
     /\ (resp'.op = "daily" /\ resp'.err = "none") =>
          LET b == resp'.body
              S == CountedNow(b.date, b.date + UnitsPerDay - 1)
          IN OrdersOnlyOf(b.paymentMethods, S, {orders[o].paymentMethod : o \in S})
     /\ \A q \in NewHandlers : (q.op = "summary" /\ q.pc = "groupBy") =>
          LET today == LocalMidnight(q.date, q.tz)
              S == CountedNow(today, today + UnitsPerDay - 1)
          IN q.body.dailyTotalSales = SalesOf(S) /\ q.body.dailyTotalOrders = Cardinality(S)
     /\ \A q \in NewHandlers : (q.op = "summary" /\ q.pc = "monthly") =>
          LET today == LocalMidnight(q.date, q.tz)
              S == CountedNow(today, today + UnitsPerDay - 1)
          IN OrdersOnlyOf(q.body.paymentMethods, S, {orders[o].paymentMethod : o \in S})
     /\ \A q \in NewHandlers : (q.op = "summary" /\ q.pc = "recent") =>
          LET today == LocalMidnight(q.date, q.tz)
              S == CountedNow(FirstDayOfMonth(today, q.tz, 0), FirstDayOfMonth(today, q.tz, 1) - 1)
              top == q.body.topSellingProducts
          IN /\ \A i \in 1..Len(top) : top[i].count = QuantityOf(S, {top[i].key})
             /\ Len(top) < TopN => GroupCounts(top) = QuantityOf(S, Products)
     /\ (resp'.op = "summary" /\ resp'.err = "none") =>
          LET recent == resp'.body.recentOrders
          IN \A i \in 1..Len(recent) : orders[recent[i]].status = "COMPLETED"
    ]_vars

\* a daily report whose first query found no COMPLETED order and whose groupBy
\* found one, completed in between, beside an order of the day that is not COMPLETED
C21_Witness ==
  /\ resp.op = "daily" /\ resp.err = "none"
  /\ resp.body.totalOrders = 0 /\ resp.body.paymentMethods # <<>>
  /\ \E o \in OrderIds :
       /\ orders[o].status # "COMPLETED"
       /\ resp.body.date <= orders[o].createdAt
       /\ orders[o].createdAt < resp.body.date + UnitsPerDay

\* ---------------------------------------------------------------- C22
\* the errors the services throw on purpose; "Storage" stands for the failures
\* of the database and the file system
DomainErrors ==
  {"Validation", "NotAvailable", "ProductNotFound", "InsufficientStock", "OrderNotFound",
   "NotPending", "ProofNotRequired", "ConfigNotFound", "NotUploaded", "NoProof",
   "NotPendingOrVerified", "NotVerified", "NotCancellable"}

\* C22: every domain error of createOrder, uploadPaymentProof, verifyPayment,
\* completeOrder and cancelOrder (not found, invalid state, insufficient stock,
\* validation, unavailable or unconfigured payment method) is answered with a
\* client-error status (4xx); status 500 is sent for storage failures only.
C22_DomainErrorsClientStatus ==
  /\ resp.err \in DomainErrors => resp.http \in 400..499
  /\ resp.http = 500 => resp.err = "Storage"

\* ---------------------------------------------------------------- C23
InvalidStateErrors ==
  {"NotPending", "NotUploaded", "NotPendingOrVerified", "NotVerified", "NotCancellable"}

\* C23: a transition request that the lifecycle does not permit is rejected
\* with an invalid-state error whose message names the status the order is in.
C23_RejectionNamesCurrentStatus ==
  (resp.err \in InvalidStateErrors /\ resp.oid \in OrderIds) =>
     orders[resp.oid].status \in StatusesNamed(resp.err)

\* ---------------------------------------------------------------- C24
\* C24: completeOrder compares no stock with any quantity.  A complete request
\* on an order in PAYMENT_VERIFIED is never answered with an error, and its
\* transaction sets the order COMPLETED and takes every item's quantity from the
\* stock of its product whatever that stock is, also when it is lower than the
\* quantity.
C24_CompleteIgnoresStock ==
  [][(/\ resp'.op = "complete" /\ resp'.oid \in OrderIds
         /\ orders[resp'.oid].status = "PAYMENT_VERIFIED") =>
          /\ resp'.err = "none"
          /\ orders'[resp'.oid].status = "COMPLETED"
          /\ stock' = [p \in Products |-> stock[p] - SumQty(orders[resp'.oid].orderItems, p)]
    ]_vars

\* a completion that succeeded on a product whose stock was lower than the
\* quantity of the order: the stock is negative after it
C24_Witness ==
  /\ resp.op = "complete" /\ resp.err = "none"
  /\ \E p \in Products :
       /\ SumQty(orders[resp.oid].orderItems, p) > 0
       /\ stock[p] < 0

\* ---------------------------------------------------------------- C25
\* the orders that are COMPLETED now
CompletedNow == {o \in OrderIds : orders[o].status = "COMPLETED"}

\* C25: as long as no admin update was made, for every product the stock taken
\* so far (initial stock minus current stock) is the sum of the quantities of
\* the product over the items of the COMPLETED orders: every completed order was
\* subtracted once and no other order was subtracted.
C25_StockConservation ==
  nAdmin = 0 =>
    \A p \in Products :
      InitStock - stock[p] =
        SumOver(CompletedNow, [o \in CompletedNow |-> SumQty(orders[o].orderItems, p)])

\* ---------------------------------------------------------------- C26
\* C26: in every reachable state an order in PENDING has no payment proof and
\* an order in PAYMENT_UPLOADED has one; hence no uploadPaymentProof passes its
\* status check on an order that has a proof (the branch that replaces a proof is
\* not taken) and verifyPayment never answers that the proof is missing.
C26_ProofFollowsStatus ==
  /\ \A o \in OrderIds :
       /\ orders[o].status = "PENDING" => orders[o].paymentProof = 0
       /\ orders[o].status = "PAYMENT_UPLOADED" => orders[o].paymentProof # 0
  /\ \A q \in InFlight : q.op = "upload" => q.snap.paymentProof = 0
  /\ resp.err # "NoProof"

\* an order in PAYMENT_UPLOADED with its proof, written by an upload that took
\* the create branch, on which verifyPayment has passed the check of the proof
C26_Witness ==
  \E o \in OrderIds :
    /\ orders[o].status = "PAYMENT_UPLOADED" /\ orders[o].paymentProof # 0
    /\ \E q \in InFlight :
         /\ q.op = "verify" /\ q.pc = "write" /\ q.oid = o
         /\ q.snap.status = "PAYMENT_UPLOADED" /\ q.snap.paymentProof # 0

\* ---------------------------------------------------------------- C27
\* C27: while the payment-method settings stay as seeded, an order becomes
\* COMPLETED only from PAYMENT_VERIFIED; an order whose method requires a proof
\* becomes PAYMENT_VERIFIED only from PAYMENT_UPLOADED, by a verifyPayment that
\* succeeds, and it holds a proof whenever it is PAYMENT_VERIFIED or COMPLETED.
C27_CompletedOnlyAfterVerified ==
  [][(settings = SeedSettings /\ settings' = SeedSettings) =>
       /\ \A o \in OrderIds :
            /\ (orders'[o].status = "COMPLETED" /\ orders[o].status # "COMPLETED") =>
                 orders[o].status = "PAYMENT_VERIFIED"
            /\ (/\ settings[orders[o].paymentMethod].requiresProof
                /\ orders'[o].status = "PAYMENT_VERIFIED"
                /\ orders[o].status # "PAYMENT_VERIFIED") =>
                 /\ orders[o].status = "PAYMENT_UPLOADED"
                 /\ resp'.op = "verify" /\ resp'.oid = o /\ resp'.err = "none"
       /\ \A o \in 1..Len(orders') :
            (/\ settings[orders'[o].paymentMethod].requiresProof
             /\ orders'[o].status \in {"PAYMENT_VERIFIED", "COMPLETED"}) =>
              orders'[o].paymentProof # 0
    ]_vars

\* ---------------------------------------------------------------- C28
\* the quantity of product p over the items of the COMPLETED orders created in
\* the local month of instant now
MonthlyQuantity(p, now, tz) ==
  LET today == LocalMidnight(now, tz)
  IN QuantityOf(CountedNow(FirstDayOfMonth(today, tz, 0), FirstDayOfMonth(today, tz, 1) - 1), {p})

\* C28: the top-selling list of the summary holds at most five products, each
\* once and each with its quantity over the items of the COMPLETED orders
\* created in the current month; the list is in descending order of that
\* quantity; and a product sold in the month is left out only when the list is
\* full, and then its quantity is no larger than that of any product in the list.
C28_TopSellingProducts ==
  (resp.op = "summary" /\ resp.err = "none") =>
    LET top == resp.body.topSellingProducts
        qty(p) == MonthlyQuantity(p, resp.date, resp.tz)
    IN /\ Len(top) <= 5
       /\ \A i \in 1..Len(top) :
            /\ top[i].key \in TopCatalog
            /\ top[i].count = qty(top[i].key) /\ top[i].count > 0
       /\ \A i, j \in 1..Len(top) :
            /\ i < j => top[i].count >= top[j].count
            /\ i # j => top[i].key # top[j].key
       /\ \A p \in TopCatalog \ GroupKeys(top) :
            qty(p) > 0 => /\ Len(top) = 5
                          /\ \A i \in 1..Len(top) : qty(p) <= top[i].count

\* a summary whose list is full while a sixth product was sold in the month, in
\* a smaller quantity than the first of the list
C28_Witness ==
  /\ resp.op = "summary" /\ resp.err = "none"
  /\ Len(resp.body.topSellingProducts) = 5
  /\ \E p \in TopCatalog \ GroupKeys(resp.body.topSellingProducts) :
       /\ MonthlyQuantity(p, resp.date, resp.tz) > 0
       /\ MonthlyQuantity(p, resp.date, resp.tz) < resp.body.topSellingProducts[1].count

\* ---------------------------------------------------------------- C29
\* the amounts of a breakdown never grow along the list
DescendingByAmount(G) == \A i, j \in 1..Len(G) : i < j => G[i].amount >= G[j].amount

\* C29: in the daily report the breakdown by product, the breakdown by
\* category and the breakdown by payment method are each in descending order
\* of revenue (amount).
C29_DailyBreakdownsDescending ==
  (resp.op = "daily" /\ resp.err = "none") =>
    /\ DescendingByAmount(resp.body.productSales)
    /\ DescendingByAmount(resp.body.categorySales)
    /\ DescendingByAmount(resp.body.paymentMethods)

\* the two breakdowns the code sorts
C29_ProductsAndCategoriesDescending ==
  (resp.op = "daily" /\ resp.err = "none") =>
    /\ DescendingByAmount(resp.body.productSales)
    /\ DescendingByAmount(resp.body.categorySales)

====
